---- MODULE Spec2Model ----
(***************************************************************************)
(* The merge-command core of github-review-helper (merge_command.go).      *)
(*                                                                         *)
(* Two handlers drive a pull request from "requested" to "merged":         *)
(*   handleMergeCommand                 on a "!merge" comment event,       *)
(*   mergePullRequestsReadyForMerging   on a commit status event.          *)
(* Every remote call (AddLabel, GetPR, CombinedStatus, Squash, Merge,      *)
(* RemoveLabel, Comment, SearchIssues) is one step of the handler that     *)
(* issues it; the remote side answers each call with any outcome it can    *)
(* produce.  The remote state is the 'merging' label and the merged flag   *)
(* of each PR.                                                             *)
(***************************************************************************)
EXTENDS Integers, Sequences, FiniteSets, TLC

\* ------------------------------------------------------------------ bounds
NumPRs == 2          \* pull requests of the repository
MaxResults == 1      \* length of a search result list in Spec
MaxBatch == 4        \* length of a search result list in SpecBatch
MaxBranches == 2     \* length of the Branches list of a status event in SpecGate
MaxStatuses == 2     \* length of the status list of a PR in SpecStatuses
MaxPad == 1          \* characters before and after the text of a comment in SpecCommand

\* --------------------------------------------------------------- constants
MergingLabel == "merging"
StatusBadGateway == 502
SquashContext == "review/squash"

PRs == 1..NumPRs
Handlers == {"comment", "status"}

\* The login of the author of PR p, as the remote reports it.
Login(p) == <<"author", p>>

\* An Issue value: Number and User.Login (one repository is modelled).
IssueOf(p) == [Number |-> p, Login |-> Login(p)]
NoIssue == [Number |-> 0, Login |-> <<"author", 0>>]

\* ------------------------------------------------------------- responses
SuccessResponse(text, p, n) ==
    [kind |-> "Success", text |-> text, pr |-> p, n |-> n, code |-> 200]
ErrorResponse(text, p, code) ==
    [kind |-> "Error", text |-> text, pr |-> p, n |-> 0, code |-> code]
\* a nil *ErrorResponse
NoErr == [kind |-> "nil", text |-> "", pr |-> 0, n |-> 0, code |-> 0]
\* no response written (handler still running, or it panicked)
NoResponse == [kind |-> "none", text |-> "", pr |-> 0, n |-> 0, code |-> 0]

\* Error responses of the remote-call helpers.
AddLabelError(p) == ErrorResponse("Failed to set the label on PR", p, StatusBadGateway)
RemoveLabelError(p) == ErrorResponse("Failed to remove the label from PR", p, StatusBadGateway)
GetPRError(p) == ErrorResponse("Getting PR failed", p, StatusBadGateway)
GetStatusesError(p) == ErrorResponse("Failed to get combined status of PR", p, StatusBadGateway)
SquashError(p) == ErrorResponse("Failed to autosquash the commits", p, StatusBadGateway)

\* ----------------------------------------------------------- remote calls
\* One entry of a handler's record of the remote calls it has issued.
Call(op, p, res) ==
    [op |-> op, pr |-> p, res |-> res, label |-> "-", merged |-> FALSE,
     mergeable |-> "-", state |-> "-", statuses |-> <<>>, login |-> <<"author", 0>>]
LabelCall(op, p, res, l) == [Call(op, p, res) EXCEPT !.label = l]
GetPRCall(p, res, m, mg) == [Call("GetPR", p, res) EXCEPT !.merged = m, !.mergeable = mg]
StatusCall(p, res, s, l) ==
    [Call("CombinedStatus", p, res) EXCEPT !.state = s, !.statuses = l]
CommentCall(p, res, lg) == [Call("Comment", p, res) EXCEPT !.login = lg]

Mergeables == {"true", "false", "null"}
CombinedStates == {"success", "pending", "failure"}

RepoStatus(c, s) == [Context |-> c, State |-> s]
StatusLists ==
    { <<>>,
      <<RepoStatus(SquashContext, "pending")>>,
      <<RepoStatus(SquashContext, "success")>>,
      <<RepoStatus("ci/build", "pending")>>,
      <<RepoStatus("ci/build", "success"), RepoStatus(SquashContext, "pending")>> }
\* What getStatuses can return: an error, or a combined state with a list.
StatusResults ==
    {[ok |-> FALSE, state |-> "-", statuses |-> <<>>]}
      \cup [ok : {TRUE}, state : CombinedStates, statuses : StatusLists]

LogEntry(text, p, err) == [text |-> text, pr |-> p, err |-> err]

VARIABLES
    label,              \* remote: the PRs that carry the 'merging' label
    merged,             \* remote: the PRs that are merged
    green,              \* remote: the PRs whose head commit has combined status
                        \* "success", where the CI is followed (SpecWake)
    outstanding,        \* history: PRs with an accepted, unresolved merge command
    faulted,            \* history: PRs with a failed RemoveLabel or Comment call
                        \* since their last accepted merge command
    pc,                 \* per handler: the next step
    cur,                \* per handler: the Issue being handled
    calls,              \* per handler: remote calls issued for the current event
    resp,               \* per handler: the Response to the current event
    logs,               \* per handler: lines logged for the current event
    removeLabelErrResp, \* per handler: handleMergeConflict's removeLabelErrResp
    issuesToMerge,      \* status handler: the search result
    idx,                \* status handler: loop position in issuesToMerge
    finalErrResp,       \* status handler: finalErrResp
    query,              \* status handler: the commit SHA its search query names
    prev,               \* history: the comment handling completed before this one
    arg,                \* the value a pure function is applied to
    ret                 \* what the function returned for arg

vars == <<label, merged, green, outstanding, faulted, pc, cur, calls, resp, logs,
          removeLabelErrResp, issuesToMerge, idx, finalErrResp, query, prev, arg, ret>>

remoteVars == <<label, merged, green>>
statusVars == <<issuesToMerge, idx, finalErrResp, query>>
evalVars == <<arg, ret>>
coreVars == <<remoteVars, outstanding, faulted, pc, cur, calls, resp, logs,
              removeLabelErrResp, statusVars, prev>>

NoQuery == ""
\* No argument given, nothing returned.
NoValue == [fn |-> "-", value |-> FALSE]
NoRun == [issue |-> 0, calls |-> <<>>, resp |-> NoResponse]

\* The state when the service starts, m being the PRs merged before that and
\* a the argument a pure function is to be applied to.
InitOf(m, a) ==
    /\ label = {}
    /\ merged = m
    /\ green = {}
    /\ outstanding = {}
    /\ faulted = {}
    /\ pc = [h \in Handlers |-> "idle"]
    /\ cur = [h \in Handlers |-> NoIssue]
    /\ calls = [h \in Handlers |-> <<>>]
    /\ resp = [h \in Handlers |-> NoResponse]
    /\ logs = [h \in Handlers |-> <<>>]
    /\ removeLabelErrResp = [h \in Handlers |-> NoErr]
    /\ issuesToMerge = <<>>
    /\ idx = 0
    /\ finalErrResp = NoErr
    /\ query = NoQuery
    /\ prev = NoRun
    /\ arg = a
    /\ ret = NoValue

InitWith(m) == InitOf(m, NoValue)
Init == InitWith({})

\* A handler is at rest: it has not started, has responded, or has panicked.
AtRest(h) == pc[h] \in {"idle", "done", "panic"}
Quiescent == \A h \in Handlers : AtRest(h)

\* ------------------------------------------------------------ step helpers
Issued(h, c) == calls' = [calls EXCEPT ![h] = Append(@, c)]
Logged(h, lines) == logs' = [logs EXCEPT ![h] = @ \o lines]
Goto(h, l) == pc' = [pc EXCEPT ![h] = l]
\* The handler returns response r.
Respond(h, r) ==
    /\ pc' = [pc EXCEPT ![h] = "done"]
    /\ resp' = [resp EXCEPT ![h] = r]

\* An event starts in handler h: h's variable f gets v, and what a handling
\* that has ended left in f is discarded.
Fresh(f, h, v, blank) ==
    [k \in Handlers |-> IF k = h THEN v ELSE IF AtRest(k) THEN blank ELSE f[k]]

\* ------------------------------------------------- handleMergeCommand
\* The handling of a "!merge" comment on PR p starts; pv is what is kept of
\* the handling before it.
StartMergeCommand(p, pv) ==
    /\ AtRest("comment")
    /\ pc' = Fresh(pc, "comment", "addLabel", "idle")
    /\ cur' = Fresh(cur, "comment", IssueOf(p), NoIssue)
    /\ calls' = Fresh(calls, "comment", <<>>, <<>>)
    /\ resp' = Fresh(resp, "comment", NoResponse, NoResponse)
    /\ logs' = Fresh(logs, "comment", <<>>, <<>>)
    /\ removeLabelErrResp' = Fresh(removeLabelErrResp, "comment", NoErr, NoErr)
    /\ prev' = pv
    /\ IF AtRest("status")
         THEN /\ issuesToMerge' = <<>>
              /\ idx' = 0
              /\ finalErrResp' = NoErr
              /\ query' = NoQuery
         ELSE UNCHANGED statusVars
    /\ UNCHANGED <<remoteVars, outstanding, faulted, evalVars>>

\* Events are delivered one at a time.
CommentEvent(p) == Quiescent /\ StartMergeCommand(p, NoRun)

\* A second "!merge" comment on the PR whose handling has just completed.
CommentEventAgain ==
    /\ pc["comment"] \in {"done", "panic"}
    /\ prev = NoRun
    /\ Quiescent
    /\ StartMergeCommand(cur["comment"].Number,
                         [issue |-> cur["comment"].Number,
                          calls |-> calls["comment"],
                          resp |-> resp["comment"]])

\* Mutant: the failure of addLabel is ignored.
AfterAddLabel_FailureIgnored(ok) == "getPR"

\* The step after addLabel (lines 33-36): its failure ends the handling.
AfterAddLabel(ok) == IF ok THEN "getPR" ELSE "abort"

\* addLabel(issueComment.Repository, issueComment.IssueNumber, MergingLabel, issues)
AddLabel(ok) ==
    LET p == cur["comment"].Number
        next == AfterAddLabel(ok)
    IN
    /\ pc["comment"] = "addLabel"
    /\ Issued("comment", LabelCall("AddLabel", p, IF ok THEN "ok" ELSE "err", MergingLabel))
    /\ label' = IF ok THEN label \cup {p} ELSE label
    /\ outstanding' = IF ok THEN outstanding \cup {p} ELSE outstanding
    /\ faulted' = IF ok THEN faulted \ {p} ELSE faulted
    /\ IF next = "abort"
         THEN Respond("comment", AddLabelError(p))
         ELSE Goto("comment", next) /\ UNCHANGED resp
    /\ UNCHANGED <<merged, green, cur, logs, removeLabelErrResp, statusVars, prev, evalVars>>

\* Mutant: a PR that is not mergeable is treated like a merged one.
AfterGetPR_UnmergeableAsMerged(isMerged, mergeable) ==
    IF isMerged \/ mergeable = "false" THEN "removeMergedLabel"
    ELSE IF mergeable = "null" THEN "panic"
    ELSE "getStatuses"

\* Mutant: the Merged flag is not looked at.
AfterGetPR_MergedIgnored(isMerged, mergeable) ==
    IF mergeable = "null" THEN "panic"
    ELSE IF mergeable = "false" THEN "notMergeable"
    ELSE "getStatuses"

\* The branch taken on the fetched PR (lines 38-49): Merged is read first,
\* then Mergeable, whose pointer is nil while the remote has not computed it.
AfterGetPR(isMerged, mergeable) ==
    IF isMerged THEN "removeMergedLabel"
    ELSE IF mergeable = "null" THEN "panic"
    ELSE IF mergeable = "false" THEN "notMergeable"
    ELSE "getStatuses"

\* getPR(issueComment, pullRequests) and the branch on its result
GetPR(ok, mergeable) ==
    LET p == cur["comment"].Number
        isMerged == p \in merged
        next == AfterGetPR(isMerged, mergeable)
    IN
    /\ pc["comment"] = "getPR"
    /\ IF ~ok
         THEN /\ Issued("comment", Call("GetPR", p, "err"))
              /\ Respond("comment", GetPRError(p))
              /\ UNCHANGED <<logs, outstanding>>
         ELSE /\ Issued("comment", GetPRCall(p, "ok", isMerged, mergeable))
              /\ outstanding' = IF isMerged THEN outstanding \ {p} ELSE outstanding
              /\ CASE next = "removeMergedLabel" ->
                        /\ Logged("comment", <<LogEntry("already merged", p, NoErr)>>)
                        /\ Goto("comment", next)
                        /\ UNCHANGED resp
                   [] next = "notMergeable" ->
                        /\ Respond("comment", SuccessResponse("", 0, 0))
                        /\ UNCHANGED logs
                   [] OTHER ->
                        /\ Goto("comment", next)
                        /\ UNCHANGED <<resp, logs>>
    /\ UNCHANGED <<remoteVars, faulted, cur, removeLabelErrResp, statusVars, prev, evalVars>>

\* removeLabel on the already merged PR (lines 42-46)
RemoveMergedLabel(ok) ==
    LET p == cur["comment"].Number IN
    /\ pc["comment"] = "removeMergedLabel"
    /\ Issued("comment", LabelCall("RemoveLabel", p, IF ok THEN "ok" ELSE "err", MergingLabel))
    /\ label' = IF ok THEN label \ {p} ELSE label
    /\ faulted' = IF ok THEN faulted ELSE faulted \cup {p}
    /\ Respond("comment", IF ok THEN SuccessResponse("", 0, 0) ELSE RemoveLabelError(p))
    /\ UNCHANGED <<merged, green, outstanding, cur, logs, removeLabelErrResp, statusVars,
                   prev, evalVars>>

\* Mutant: the squash context and the pending state are looked for on their
\* own, not in one and the same status.
containsPendingSquashStatus_AnyEntryPending(statuses) ==
    /\ \E i \in 1..Len(statuses) : statuses[i].Context = SquashContext
    /\ \E i \in 1..Len(statuses) : statuses[i].State = "pending"

containsPendingSquashStatus(statuses) ==
    \E i \in 1..Len(statuses) :
        statuses[i].Context = SquashContext /\ statuses[i].State = "pending"

\* Mutant: only a "failure" state holds the merge back.
AfterGetStatuses_OnlyFailureWaits(state, statuses) ==
    IF state = "pending" /\ containsPendingSquashStatus(statuses) THEN "squash"
    ELSE IF state = "failure" THEN "wait"
    ELSE "merge"

\* Mutant: every pending state starts a squash.
AfterGetStatuses_PendingSquashes(state, statuses) ==
    IF state = "pending" THEN "squash"
    ELSE IF state # "success" THEN "wait"
    ELSE "merge"

\* The branch taken on the combined status (lines 51-58).
AfterGetStatuses(state, statuses) ==
    IF state = "pending" /\ containsPendingSquashStatus(statuses) THEN "squash"
    ELSE IF state # "success" THEN "wait"
    ELSE "merge"

\* getStatuses(pr, repositories) and the branch on its result
GetStatuses(r) ==
    LET p == cur["comment"].Number
        ok == r.ok
        state == r.state
        statuses == r.statuses
        next == AfterGetStatuses(state, statuses)
    IN
    /\ pc["comment"] = "getStatuses"
    /\ IF ~ok
         THEN /\ Issued("comment", Call("CombinedStatus", p, "err"))
              /\ Respond("comment", GetStatusesError(p))
              /\ UNCHANGED logs
         ELSE /\ Issued("comment", StatusCall(p, "ok", state, statuses))
              /\ IF next = "wait"
                   THEN /\ Logged("comment", <<LogEntry("pending and/or failed statuses", p, NoErr)>>)
                        /\ Respond("comment", SuccessResponse("", 0, 0))
                   ELSE /\ Goto("comment", next)
                        /\ UNCHANGED <<resp, logs>>
    /\ UNCHANGED <<remoteVars, outstanding, faulted, cur, removeLabelErrResp, statusVars, prev, evalVars>>

\* squashAndReportFailure(pr, gitRepos, repositories)
Squash(ok) ==
    LET p == cur["comment"].Number IN
    /\ pc["comment"] = "squash"
    /\ Issued("comment", Call("Squash", p, IF ok THEN "ok" ELSE "err"))
    /\ Respond("comment", IF ok THEN SuccessResponse("", 0, 0) ELSE SquashError(p))
    /\ UNCHANGED <<remoteVars, outstanding, faulted, cur, logs, removeLabelErrResp, statusVars, prev, evalVars>>

\* ------------------------------------------------------- mergeReadyPR
\* Mutant: the conflict error is treated like any other merge error.
AfterMerge_NoConflictCase(out) ==
    IF out # "ok" THEN "failed" ELSE "removeLabel"

\* Mutant: every merge error is handled as a merge conflict.
AfterMerge_EveryErrorConflict(out) ==
    IF out # "ok" THEN "conflictRemoveLabel" ELSE "removeLabel"

\* The branch taken on merge's error (lines 66-72).
AfterMerge(out) ==
    IF out = "conflict" THEN "conflictRemoveLabel"
    ELSE IF out # "ok" THEN "failed"
    ELSE "removeLabel"

MergeError(p) == ErrorResponse("Failed to merge PR", p, StatusBadGateway)
NotifyError(p) ==
    ErrorResponse("Failed to notify the author of PR about the merge conflict", p,
                  StatusBadGateway)

\* Mutant: the success response carries no message.
MergeCommandResponse_NoMessage(e, p) ==
    IF e # NoErr THEN e ELSE SuccessResponse("", 0, 0)

\* What handleMergeCommand responds once mergeReadyPR has returned e (lines 59-62).
MergeCommandResponse(e, p) ==
    IF e # NoErr THEN e ELSE SuccessResponse("Successfully merged PR", p, 0)

\* Mutant: the first error is kept and later ones are dropped.
NextFinalErrResp_KeepFirst(final, e) == IF final # NoErr THEN final ELSE e

\* finalErrResp after a candidate's mergeReadyPR has returned e (lines 118-127).
NextFinalErrResp(final, e) == IF e # NoErr THEN e ELSE final

\* Mutant: an error is replaced without being logged.
OverwriteLog_Silent(final, e) == <<>>

\* The line logged when e replaces an earlier error (lines 121-125).
OverwriteLog(final, e) ==
    IF e # NoErr /\ final # NoErr
      THEN <<LogEntry("Multiple PR merge errors have occured", final.pr, final)>>
      ELSE <<>>

\* What mergePullRequestsReadyForMerging responds after the loop (lines 129-132).
BatchResponse(final, issues) ==
    IF final # NoErr THEN final
    ELSE SuccessResponse("Successfully merged PRs", 0, Len(issues))

\* Mutant: the loop ends at the first candidate that fails.
NextCandidate_BreakOnError(i, issues, e) ==
    IF e = NoErr /\ i < Len(issues) THEN i + 1 ELSE 0

\* The range loop over issuesToMerge (line 110): the position of the candidate
\* after candidate i, whose mergeReadyPR returned e, or 0 after the last one.
\* The loop has no break: e plays no part.
NextCandidate(i, issues, e) == IF i < Len(issues) THEN i + 1 ELSE 0

\* mergeReadyPR returns e to its caller, having logged lines: handleMergeCommand
\* responds; mergePullRequestsReadyForMerging moves to the next candidate or
\* responds after the last one.
Return(h, e, lines) ==
    IF h = "comment"
      THEN /\ Respond(h, MergeCommandResponse(e, cur[h].Number))
           /\ Logged(h, lines)
           /\ UNCHANGED <<cur, statusVars>>
      ELSE /\ Logged(h, lines \o OverwriteLog(finalErrResp, e))
           /\ finalErrResp' = NextFinalErrResp(finalErrResp, e)
           /\ IF NextCandidate(idx, issuesToMerge, e) # 0
                THEN /\ idx' = NextCandidate(idx, issuesToMerge, e)
                     /\ cur' = [cur EXCEPT ![h] =
                                   issuesToMerge[NextCandidate(idx, issuesToMerge, e)]]
                     /\ Goto(h, "merge")
                     /\ UNCHANGED resp
                ELSE /\ Respond(h, BatchResponse(NextFinalErrResp(finalErrResp, e),
                                                 issuesToMerge))
                     /\ UNCHANGED <<idx, cur>>
           /\ UNCHANGED <<issuesToMerge, query>>

\* merge(issue.Repository, issue.Number, pullRequests) and the branch on its error
Merge(h, out) ==
    LET p == cur[h].Number
        next == AfterMerge(out)
    IN
    /\ pc[h] = "merge"
    /\ Issued(h, Call("Merge", p, out))
    /\ merged' = IF out = "ok" THEN merged \cup {p} ELSE merged
    /\ outstanding' = IF out = "ok" THEN outstanding \ {p} ELSE outstanding
    /\ CASE next = "failed" -> Return(h, MergeError(p), <<>>)
         [] next = "removeLabel" ->
              /\ Logged(h, <<LogEntry("successfully merged", p, NoErr)>>)
              /\ Goto(h, next)
              /\ UNCHANGED <<resp, cur, statusVars>>
         [] OTHER ->
              /\ Logged(h, <<LogEntry("merge conflict", p, NoErr)>>)
              /\ Goto(h, next)
              /\ UNCHANGED <<resp, cur, statusVars>>
    /\ UNCHANGED <<label, green, faulted, removeLabelErrResp, prev, evalVars>>

\* removeLabel after a successful merge (lines 78-82)
RemoveLabel(h, ok) ==
    LET p == cur[h].Number IN
    /\ pc[h] = "removeLabel"
    /\ Issued(h, LabelCall("RemoveLabel", p, IF ok THEN "ok" ELSE "err", MergingLabel))
    /\ label' = IF ok THEN label \ {p} ELSE label
    /\ faulted' = IF ok THEN faulted ELSE faulted \cup {p}
    /\ Return(h, IF ok THEN NoErr ELSE RemoveLabelError(p), <<>>)
    /\ UNCHANGED <<merged, green, outstanding, removeLabelErrResp, prev, evalVars>>

\* ------------------------------------------------- handleMergeConflict
\* removeLabel in handleMergeConflict (lines 159-166): a failure is logged and
\* kept in removeLabelErrResp.
ConflictRemoveLabel(h, ok) ==
    LET p == cur[h].Number
        e == IF ok THEN NoErr ELSE RemoveLabelError(p)
    IN
    /\ pc[h] = "conflictRemoveLabel"
    /\ Issued(h, LabelCall("RemoveLabel", p, IF ok THEN "ok" ELSE "err", MergingLabel))
    /\ label' = IF ok THEN label \ {p} ELSE label
    /\ faulted' = IF ok THEN faulted ELSE faulted \cup {p}
    /\ removeLabelErrResp' = [removeLabelErrResp EXCEPT ![h] = e]
    /\ Logged(h, IF ok THEN <<>> ELSE <<LogEntry("Failed to remove the label", p, e)>>)
    /\ Goto(h, "conflictComment")
    /\ UNCHANGED <<merged, green, outstanding, cur, resp, statusVars, prev, evalVars>>

\* Mutant: the label-removal error is dropped once the comment is posted.
MergeConflictResult_RemoveErrDropped(commentOk, removeErr, p) ==
    IF ~commentOk THEN NotifyError(p) ELSE NoErr

\* Mutant: the label-removal error is surfaced before the comment error.
MergeConflictResult_RemoveErrFirst(commentOk, removeErr, p) ==
    IF removeErr # NoErr THEN removeErr
    ELSE IF ~commentOk THEN NotifyError(p)
    ELSE NoErr

\* The result of handleMergeConflict (lines 170-181).
MergeConflictResult(commentOk, removeErr, p) ==
    IF ~commentOk THEN NotifyError(p)
    ELSE IF removeErr # NoErr THEN removeErr
    ELSE NoErr

\* comment(message, issue.Repository, issue.Number, issues) and the result
ConflictComment(h, ok) ==
    LET p == cur[h].Number IN
    /\ pc[h] = "conflictComment"
    /\ Issued(h, CommentCall(p, IF ok THEN "ok" ELSE "err", cur[h].Login))
    /\ outstanding' = IF ok THEN outstanding \ {p} ELSE outstanding
    /\ faulted' = IF ok THEN faulted ELSE faulted \cup {p}
    /\ removeLabelErrResp' = [removeLabelErrResp EXCEPT ![h] = NoErr]
    /\ Return(h, MergeConflictResult(ok, removeLabelErrResp[h], p), <<>>)
    /\ UNCHANGED <<remoteVars, prev, evalVars>>

\* ------------------------------------- mergePullRequestsReadyForMerging
SHAs == {"c0ffee", "facade"}
EventStates == {"success", "pending", "failure", "error"}
Branch(name, sha) == [Name |-> name, SHA |-> sha]
BranchLists ==
    { <<>>,
      <<Branch("master", "c0ffee")>>,
      <<Branch("master", "facade"), Branch("topic", "c0ffee")>> }
StatusEvent(sha, state, branches) == [SHA |-> sha, State |-> state, Branches |-> branches]
\* The status events delivered: a success on a branch head (first or second
\* branch), a success on a commit that heads no branch, and the other states
\* on a branch head.
StatusEvents ==
    {StatusEvent("c0ffee", "success", b) : b \in BranchLists}
      \cup {StatusEvent("facade", "success", <<Branch("master", "c0ffee")>>)}
      \cup {StatusEvent("c0ffee", s, <<Branch("master", "c0ffee")>>) : s \in EventStates}

\* Mutant: only the first branch of the event is looked at.
isStatusForBranchHead_FirstBranchOnly(ev) ==
    Len(ev.Branches) >= 1 /\ ev.SHA = ev.Branches[1].SHA

isStatusForBranchHead(ev) ==
    \E i \in 1..Len(ev.Branches) : ev.SHA = ev.Branches[i].SHA

newPullRequestsPossiblyReadyForMerging(ev) ==
    ev.State = "success" /\ isStatusForBranchHead(ev)

Range(f) == {f[i] : i \in DOMAIN f}

\* The lists of at most n distinct PRs: what a search can return.
RECURSIVE ResultLists(_)
ResultLists(n) ==
    IF n = 0 THEN {<<>>}
    ELSE LET shorter == ResultLists(n - 1) IN
         shorter \cup UNION {{Append(l, IssueOf(q)) :
                                q \in {r \in PRs : IssueOf(r) \notin Range(l)}} :
                             l \in {x \in shorter : Len(x) = n - 1}}

\* What searchIssues can return: an error, or one of the lists.
SearchResults(lists) ==
    {[ok |-> FALSE, items |-> <<>>]} \cup [ok : {TRUE}, items : lists]

\* The candidates 1..n of a batch, n up to MaxBatch.
BatchLists == {[i \in 1..n |-> IssueOf(i)] : n \in 0..MaxBatch}

\* The handling of status event ev starts: its caller runs the handler only
\* when newPullRequestsPossiblyReadyForMerging holds, and ignores the event
\* otherwise.  The handler uses the event only to build the search query
\* (lines 97-103), of which the commit SHA is kept.
StartStatusEvent(ev) ==
    LET run == newPullRequestsPossiblyReadyForMerging(ev) IN
    /\ AtRest("status")
    /\ pc' = Fresh(pc, "status", IF run THEN "search" ELSE "done", "idle")
    /\ resp' = Fresh(resp, "status",
                     IF run THEN NoResponse
                     ELSE SuccessResponse("Status update ignored", 0, 0),
                     NoResponse)
    /\ calls' = Fresh(calls, "status", <<>>, <<>>)
    /\ logs' = Fresh(logs, "status", <<>>, <<>>)
    /\ cur' = Fresh(cur, "status", NoIssue, NoIssue)
    /\ removeLabelErrResp' = Fresh(removeLabelErrResp, "status", NoErr, NoErr)
    /\ issuesToMerge' = <<>>
    /\ idx' = 0
    /\ finalErrResp' = NoErr
    /\ query' = IF run THEN ev.SHA ELSE NoQuery
    /\ prev' = NoRun
    /\ UNCHANGED <<remoteVars, outstanding, faulted, evalVars>>

HandleStatusEvent(ev) == Quiescent /\ StartStatusEvent(ev)

SearchError == ErrorResponse("Searching for issues failed", 0, StatusBadGateway)

\* searchIssues(query, search) (lines 104-108) and the entry of the loop
SearchIssues(r) ==
    LET ok == r.ok
        results == r.items
    IN
    /\ pc["status"] = "search"
    /\ Issued("status", Call("SearchIssues", 0, IF ok THEN "ok" ELSE "err"))
    /\ IF ~ok
         THEN /\ Respond("status", SearchError)
              /\ UNCHANGED <<issuesToMerge, idx, cur>>
         ELSE /\ issuesToMerge' = results
              /\ IF Len(results) = 0
                   THEN /\ Respond("status", BatchResponse(finalErrResp, results))
                        /\ UNCHANGED <<idx, cur>>
                   ELSE /\ idx' = 1
                        /\ cur' = [cur EXCEPT !["status"] = results[1]]
                        /\ Goto("status", "merge")
                        /\ UNCHANGED resp
    /\ UNCHANGED <<remoteVars, outstanding, faulted, logs, removeLabelErrResp,
                   finalErrResp, query, prev, evalVars>>

\* ---------------------------------------------------------- specifications
MergeReadyPRStep ==
    \E h \in Handlers :
        \/ \E out \in {"ok", "conflict", "err"} : Merge(h, out)
        \/ \E ok \in BOOLEAN : RemoveLabel(h, ok)
        \/ \E ok \in BOOLEAN : ConflictRemoveLabel(h, ok)
        \/ \E ok \in BOOLEAN : ConflictComment(h, ok)

MergeCommandStep ==
    \/ \E ok \in BOOLEAN : AddLabel(ok)
    \/ \E ok \in BOOLEAN, mg \in Mergeables : GetPR(ok, mg)
    \/ \E ok \in BOOLEAN : RemoveMergedLabel(ok)
    \/ \E r \in StatusResults : GetStatuses(r)
    \/ \E ok \in BOOLEAN : Squash(ok)

\* Comment events and status events, handled one after the other.
Next ==
    \/ \E p \in PRs : CommentEvent(p)
    \/ \E ev \in StatusEvents : HandleStatusEvent(ev)
    \/ MergeCommandStep
    \/ \E r \in SearchResults(ResultLists(MaxResults)) : SearchIssues(r)
    \/ MergeReadyPRStep

Spec == Init /\ [][Next]_vars

\* One status event whose search returns a batch of candidates.
BatchEvent == pc["status"] = "idle" /\ \E ev \in StatusEvents : HandleStatusEvent(ev)

NextBatch ==
    \/ BatchEvent
    \/ \E r \in SearchResults(BatchLists) : SearchIssues(r)
    \/ MergeReadyPRStep

SpecBatch == Init /\ [][NextBatch]_vars

\* A merge command and the same command again.
NextTwice ==
    \/ pc["comment"] = "idle" /\ \E p \in PRs : CommentEvent(p)
    \/ CommentEventAgain
    \/ MergeCommandStep
    \/ MergeReadyPRStep

InitTwice == \E m \in SUBSET PRs : InitWith(m)

SpecTwice == InitTwice /\ [][NextTwice]_vars

\* The lists of at most n elements of S.
SeqsUpTo(S, n) == UNION {[1..k -> S] : k \in 0..n}

\* ------------------------------------- the statuses of a PR ready to merge
\* Every status list of at most MaxStatuses entries, each of the squash
\* context or another one, in any state.
AllStatusLists ==
    SeqsUpTo({RepoStatus(c, st) : c \in {SquashContext, "ci/build"},
                                 st \in {"pending", "success", "failure"}},
             MaxStatuses)

\* One merge command on an unmerged, mergeable PR, its statuses being any
\* combined state with any status list.
NextStatuses ==
    \/ pc["comment"] = "idle" /\ \E p \in PRs : CommentEvent(p)
    \/ AddLabel(TRUE)
    \/ GetPR(TRUE, "true")
    \/ \E state \in CombinedStates, statuses \in AllStatusLists :
           GetStatuses([ok |-> TRUE, state |-> state, statuses |-> statuses])
    \/ \E ok \in BOOLEAN : Squash(ok)
    \/ MergeReadyPRStep

SpecStatuses == Init /\ [][NextStatuses]_vars

\* --------------------------------------------------- the status-event gate

\* The status events the gate is applied to: every state, on either commit,
\* with every list of at most MaxBranches branches.
GateEvents ==
    {StatusEvent(sha, state, branches) :
        sha \in SHAs, state \in EventStates,
        branches \in SeqsUpTo({Branch(n, h) : n \in {"master", "topic"}, h \in SHAs},
                              MaxBranches)}

\* Function fn has returned v.
Returned(fn, v) == [fn |-> fn, value |-> v]

\* isStatusForBranchHead(statusEvent) is called.
CallIsStatusForBranchHead ==
    /\ ret.fn # "isStatusForBranchHead"
    /\ ret' = Returned("isStatusForBranchHead", isStatusForBranchHead(arg))
    /\ UNCHANGED <<coreVars, arg>>

\* newPullRequestsPossiblyReadyForMerging(statusEvent) is called.
CallNewPullRequestsPossiblyReadyForMerging ==
    /\ ret.fn # "newPullRequestsPossiblyReadyForMerging"
    /\ ret' = Returned("newPullRequestsPossiblyReadyForMerging",
                       newPullRequestsPossiblyReadyForMerging(arg))
    /\ UNCHANGED <<coreVars, arg>>

NextGate == CallIsStatusForBranchHead \/ CallNewPullRequestsPossiblyReadyForMerging

InitGate == \E ev \in GateEvents : InitOf({}, ev)

\* The gate functions applied to a status event.
SpecGate == InitGate /\ [][NextGate]_vars

\* ------------------------------------------------------ isMergeCommand
\* A comment body is a sequence of characters.  SP, TAB, LF and NBSP stand for
\* the space, the tab, the line feed and the no-break space, four of the
\* characters strings.TrimSpace takes for white space.
Space == {"SP", "TAB", "LF", "NBSP"}
MergeCommand == <<"!", "m", "e", "r", "g", "e">>

RECURSIVE TrimLeft(_)
TrimLeft(s) == IF s # <<>> /\ Head(s) \in Space THEN TrimLeft(Tail(s)) ELSE s
RECURSIVE TrimRight(_)
TrimRight(s) ==
    IF s # <<>> /\ s[Len(s)] \in Space THEN TrimRight(SubSeq(s, 1, Len(s) - 1)) ELSE s

\* Mutant: only the leading white space is removed.
TrimSpace_LeadingOnly(s) == TrimLeft(s)

\* strings.TrimSpace(s): s without its leading and trailing white space.
TrimSpace(s) == TrimRight(TrimLeft(s))

isMergeCommand(comment) == TrimSpace(comment) = MergeCommand

\* The texts of the comments: the command, the command in another case, with
\* white space inside, cut short, followed by more text, without its mark,
\* and no text at all.
CommentTexts ==
    { MergeCommand,
      <<"!", "M", "e", "r", "g", "e">>,
      <<"!", "SP", "m", "e", "r", "g", "e">>,
      <<"!", "m", "e", "r", "LF", "g", "e">>,
      <<"!", "m", "e", "r", "g">>,
      <<"!", "m", "e", "r", "g", "e", "SP", "n", "o", "w">>,
      <<"m", "e", "r", "g", "e">>,
      <<>> }
\* The comment bodies isMergeCommand is applied to: a text with at most MaxPad
\* characters, white space or not, before it and after it.
CommentBodies ==
    {before \o text \o after :
        before \in SeqsUpTo(Space \cup {"x"}, MaxPad),
        text \in CommentTexts,
        after \in SeqsUpTo(Space \cup {"x"}, MaxPad)}

\* isMergeCommand(comment) is called.
CallIsMergeCommand ==
    /\ ret = NoValue
    /\ ret' = Returned("isMergeCommand", isMergeCommand(arg))
    /\ UNCHANGED <<coreVars, arg>>

InitCommand == \E body \in CommentBodies : InitOf({}, body)

\* isMergeCommand applied to a comment body.
SpecCommand == InitCommand /\ [][CallIsMergeCommand]_vars

\* ------------------------------------------------- overlapping handlings
\* The head commit of PR p: every PR has a head of its own.
HeadSHA(p) == ToString(p)
\* The status event the platform emits when the head of PR p succeeds.
HeadSuccess(p) == StatusEvent(HeadSHA(p), "success", <<Branch("topic", HeadSHA(p))>>)

\* The CI reports success on the head commit of PR p.
StatusSuccess(p) ==
    /\ p \notin green
    /\ green' = green \cup {p}
    /\ UNCHANGED <<label, merged, outstanding, faulted, pc, cur, calls, resp, logs,
                   removeLabelErrResp, statusVars, prev, evalVars>>

\* The "!merge" comment on PR p is handled on a thread of its own, whatever
\* the status handler is doing.
OverlapComment(p) == StartMergeCommand(p, NoRun)
\* The success event of PR p's head is handled on a thread of its own.
OverlapStatus(p) == p \in green /\ StartStatusEvent(HeadSuccess(p))

\* The elements of the set S of PRs as a list of issues, in ascending order.
RECURSIVE Ascending(_)
Ascending(S) ==
    IF S = {} THEN <<>>
    ELSE LET least == CHOOSE x \in S : \A y \in S : x <= y
         IN <<IssueOf(least)>> \o Ascending(S \ {least})

\* What the search of lines 97-104 answers from an up-to-date index: the open
\* PRs that carry the 'merging' label, have combined status "success" and
\* contain the queried commit.
Matching == {p \in (label \cap green) \ merged : HeadSHA(p) = query}

\* The combined status of PR p as the CI has it.
CombinedStateOf(p, state) == (state = "success") <=> (p \in green)
\* What getStatuses answers for PR p from the CI's state, with a status list
\* that has a pending squash status or none at all.
StatusResultsOf(p) ==
    {r \in StatusResults :
        /\ r.ok /\ CombinedStateOf(p, r.state)
        /\ r.statuses \in {<<>>, <<RepoStatus(SquashContext, "pending")>>}}

\* The remote merges the PR; it may refuse a PR that is merged already.
MergeSucceeds(h) ==
    \E out \in {"ok", "err"} : (out = "err" => cur[h].Number \in merged) /\ Merge(h, out)

\* The steps of the comment handling and of the status handling when every
\* remote call succeeds and answers from the remote state.
CommentStepOk ==
    \/ AddLabel(TRUE)
    \/ \E mg \in Mergeables : GetPR(TRUE, mg)
    \/ RemoveMergedLabel(TRUE)
    \/ \E r \in StatusResultsOf(cur["comment"].Number) : GetStatuses(r)
    \/ Squash(TRUE)
    \/ MergeSucceeds("comment")
    \/ RemoveLabel("comment", TRUE)

StatusStepOk ==
    \/ SearchIssues([ok |-> TRUE, items |-> Ascending(Matching)])
    \/ MergeSucceeds("status")
    \/ RemoveLabel("status", TRUE)

\* A comment handling and a status handling in flight together, the CI turning
\* PRs green meanwhile.
NextOverlap ==
    \/ \E p \in PRs : StatusSuccess(p)
    \/ \E p \in PRs : OverlapComment(p)
    \/ \E p \in PRs : OverlapStatus(p)
    \/ CommentStepOk
    \/ StatusStepOk

\* Each handling runs on its thread until it returns: a remote call that has
\* been issued is answered, and the step after it is taken.
SpecOverlap ==
    Init /\ [][NextOverlap]_vars /\ WF_vars(CommentStepOk) /\ WF_vars(StatusStepOk)

\* ============================================================== properties
\* The remote calls of the comment handling and of the status handling.
cc == calls["comment"]
sc == calls["status"]

OpsOf(log) == [i \in 1..Len(log) |-> log[i].op]
\* The positions in log of the calls op issued for PR p.
CallsOf(log, op, p) == {i \in 1..Len(log) : log[i].op = op /\ log[i].pr = p}
NoCall(log, ops) == \A i \in 1..Len(log) : log[i].op \notin ops
\* Every AddLabel and RemoveLabel call of log names the 'merging' label.
OnMergingLabel(log) ==
    \A i \in 1..Len(log) :
        log[i].op \in {"AddLabel", "RemoveLabel"} => log[i].label = "merging"

\* The comment handling has ended with a response.
CommentDone == pc["comment"] = "done"
StatusDone == pc["status"] = "done"

\* C1: in handleMergeCommand a Merge call is issued only after, in the same
\* handling, AddLabel succeeded, GetPR returned Merged=false and
\* Mergeable=true, and CombinedStatus returned state "success".
C1_MergeOnlyWhenReady ==
    \A i \in 1..Len(cc) :
        cc[i].op = "Merge" =>
            /\ \E a \in 1..(i - 1) :
                   cc[a].op = "AddLabel" /\ cc[a].label = "merging" /\ cc[a].res = "ok"
            /\ \E g \in 1..(i - 1) :
                   /\ cc[g].op = "GetPR" /\ cc[g].res = "ok"
                   /\ ~cc[g].merged /\ cc[g].mergeable = "true"
            /\ \E t \in 1..(i - 1) :
                   /\ cc[t].op = "CombinedStatus" /\ cc[t].res = "ok"
                   /\ cc[t].state = "success"

\* handleMergeCommand has issued a Merge call.
C1_Witness == \E i \in 1..Len(cc) : cc[i].op = "Merge"

\* Every call of the comment handling succeeded, on an unmerged, mergeable PR
\* whose combined status is "success".
HappyPath ==
    /\ \A i \in 1..Len(cc) : cc[i].res = "ok"
    /\ \E g \in 1..Len(cc) :
           cc[g].op = "GetPR" /\ ~cc[g].merged /\ cc[g].mergeable = "true"
    /\ \E t \in 1..Len(cc) : cc[t].op = "CombinedStatus" /\ cc[t].state = "success"

\* C2: when every remote call succeeds on an unmerged, mergeable PR with
\* combined status "success", the calls are exactly AddLabel, GetPR,
\* CombinedStatus, Merge, RemoveLabel in this order (no Comment, no Squash) and
\* the response is Success "Successfully merged PR <p>".
C2_HappyPathSequence ==
    (CommentDone /\ HappyPath) =>
        /\ OpsOf(cc) = <<"AddLabel", "GetPR", "CombinedStatus", "Merge", "RemoveLabel">>
        /\ \A i \in 1..Len(cc) : cc[i].pr = cur["comment"].Number
        /\ OnMergingLabel(cc)
        /\ resp["comment"] =
               SuccessResponse("Successfully merged PR", cur["comment"].Number, 0)

C2_Witness == CommentDone /\ HappyPath /\ Len(cc) = 5

ConflictsHandled(h) == pc[h] \notin {"conflictRemoveLabel", "conflictComment"}

\* C4: whenever a Merge call fails with the conflict error, in the comment
\* path or the status path, the next two calls are one RemoveLabel and one
\* Comment that mentions the PR author's login, and they are the only
\* RemoveLabel and Comment calls for that PR; the Comment call is made
\* whether the RemoveLabel call succeeded or failed.
C4_ConflictRemovesLabelAndComments ==
    \A h \in Handlers :
        ConflictsHandled(h) =>
            \A i \in 1..Len(calls[h]) :
                (calls[h][i].op = "Merge" /\ calls[h][i].res = "conflict") =>
                    LET p == calls[h][i].pr IN
                    /\ i + 2 <= Len(calls[h])
                    /\ calls[h][i + 1].op = "RemoveLabel" /\ calls[h][i + 1].pr = p
                    /\ calls[h][i + 2].op = "Comment" /\ calls[h][i + 2].pr = p
                    /\ calls[h][i + 2].login = Login(p)
                    /\ CallsOf(calls[h], "RemoveLabel", p) = {i + 1}
                    /\ CallsOf(calls[h], "Comment", p) = {i + 2}

\* A conflict in the status path whose RemoveLabel call failed and whose
\* Comment call was made all the same.
C4_Witness ==
    /\ StatusDone
    /\ \E i \in 1..Len(sc) :
           /\ sc[i].op = "Merge" /\ sc[i].res = "conflict"
           /\ i + 2 <= Len(sc)
           /\ sc[i + 1].op = "RemoveLabel" /\ sc[i + 1].res = "err"
           /\ sc[i + 2].op = "Comment"

\* What conflict handling returns for the outcomes rl of RemoveLabel and cm of
\* Comment on PR p, as the claim states it.
ConflictPriority(rl, cm, p) ==
    IF cm # "ok" THEN NotifyError(p)
    ELSE IF rl # "ok" THEN RemoveLabelError(p)
    ELSE NoErr

\* C5: conflict handling returns the comment-failure Error if Comment failed
\* (also when RemoveLabel failed too), else the label-removal Error if
\* RemoveLabel failed, else nil.  handleMergeCommand responds with what it
\* returns (a nil is not an Error response); the status handler has it in
\* finalErrResp right after the Comment call (a nil leaves no error for
\* that PR).
C5_ConflictResultPriority ==
    /\ CommentDone =>
           \A k \in 2..Len(cc) :
               cc[k].op = "Comment" =>
                   LET e == ConflictPriority(cc[k - 1].res, cc[k].res, cc[k].pr) IN
                   IF e = NoErr THEN resp["comment"].kind = "Success"
                   ELSE resp["comment"] = e
    /\ (Len(sc) >= 2 /\ sc[Len(sc)].op = "Comment") =>
           LET k == Len(sc)
               e == ConflictPriority(sc[k - 1].res, sc[k].res, sc[k].pr)
           IN IF e = NoErr THEN finalErrResp.pr # sc[k].pr
              ELSE finalErrResp = e

\* Both RemoveLabel and Comment failed in the conflict handling of a comment
\* event, and the response is the comment-failure Error.
C5_Witness ==
    /\ CommentDone /\ Len(cc) >= 2
    /\ cc[Len(cc)].op = "Comment" /\ cc[Len(cc)].res = "err"
    /\ cc[Len(cc) - 1].op = "RemoveLabel" /\ cc[Len(cc) - 1].res = "err"
    /\ resp["comment"] = NotifyError(cur["comment"].Number)

\* The error mergeReadyPR returns for candidate q of the batch, read off the
\* outcomes of the calls made for q.
CandidateErr(q) ==
    LET m == CHOOSE i \in 1..Len(sc) : sc[i].op = "Merge" /\ sc[i].pr = q IN
    CASE sc[m].res = "err" -> MergeError(q)
      [] sc[m].res = "ok" ->
           IF sc[m + 1].res = "ok" THEN NoErr ELSE RemoveLabelError(q)
      [] OTHER -> ConflictPriority(sc[m + 1].res, sc[m + 2].res, q)

CandidateFailed(issue) == CandidateErr(issue.Number) # NoErr
\* The failing candidates in iteration order, and their errors.
Failing == SelectSeq(issuesToMerge, CandidateFailed)
FailingErrs == [i \in 1..Len(Failing) |-> CandidateErr(Failing[i].Number)]

IsOverwriteLine(line) == line.text = "Multiple PR merge errors have occured"
\* The errors logged because a later one replaced them, in log order.
LoggedErrs ==
    LET lines == SelectSeq(logs["status"], IsOverwriteLine) IN
    [i \in 1..Len(lines) |-> lines[i].err]

\* The status handling has ended after a successful search.
BatchDone == StatusDone /\ Len(sc) >= 1 /\ sc[1].op = "SearchIssues" /\ sc[1].res = "ok"

\* C6: for any search result and any subset of failing candidates, the
\* response is the Error of the last failing candidate in iteration order and
\* the Error of every earlier failing candidate has been logged, in order;
\* when no candidate fails the response is not an Error.
C6_LastErrorWinsEarlierLogged ==
    BatchDone =>
        IF Len(Failing) = 0
          THEN resp["status"].kind = "Success" /\ LoggedErrs = <<>>
          ELSE /\ resp["status"] = FailingErrs[Len(Failing)]
               /\ LoggedErrs = SubSeq(FailingErrs, 1, Len(Failing) - 1)

\* A batch of four in which candidates 1, 2 and 4 failed and 3 did not.
C6_Witness ==
    /\ BatchDone
    /\ Len(issuesToMerge) = 4
    /\ Len(Failing) = 3
    /\ ~CandidateFailed(issuesToMerge[3])

\* C7: a Success that reports merging is truthful: "Successfully merged PR X"
\* only if the Merge call for X succeeded, and "Successfully merged N PRs" only
\* with N the number of candidates whose Merge call succeeded.
C7_SuccessIsTruthful ==
    /\ (CommentDone /\ resp["comment"].text = "Successfully merged PR") =>
           \E i \in 1..Len(cc) :
               cc[i].op = "Merge" /\ cc[i].res = "ok" /\ cc[i].pr = resp["comment"].pr
    /\ (StatusDone /\ resp["status"].text = "Successfully merged PRs") =>
           resp["status"].n =
               Cardinality({i \in 1..Len(sc) : sc[i].op = "Merge" /\ sc[i].res = "ok"})

\* GetPR reported Merged=true in the handling whose calls are log.
FoundMerged(log) ==
    \E g \in 1..Len(log) : log[g].op = "GetPR" /\ log[g].res = "ok" /\ log[g].merged

\* handleMergeCommand has run twice in succession on one PR, and GetPR
\* reported Merged=true both times.
TwiceOnMerged ==
    /\ CommentDone
    /\ prev # NoRun
    /\ prev.issue = cur["comment"].Number
    /\ FoundMerged(prev.calls)
    /\ FoundMerged(cc)

\* One RemoveLabel attempt and no Merge call among the calls log for PR p.
OneRemovalNoMerge(log, p) ==
    /\ Cardinality(CallsOf(log, "RemoveLabel", p)) = 1
    /\ OnMergingLabel(log)
    /\ NoCall(log, {"Merge"})

\* C8 as stated: both invocations yield Success, each makes one RemoveLabel
\* attempt, and neither issues a Merge call.
C8_TwiceOnMergedBothSucceed ==
    TwiceOnMerged =>
        /\ prev.resp.kind = "Success" /\ resp["comment"].kind = "Success"
        /\ OneRemovalNoMerge(prev.calls, prev.issue)
        /\ OneRemovalNoMerge(cc, prev.issue)

\* The response of a handling that found the PR merged, by the outcome of its
\* RemoveLabel call.
MergedRunResponse(log, p) ==
    IF log[Len(log)].res = "ok" THEN SuccessResponse("", 0, 0) ELSE RemoveLabelError(p)

\* C8 as amended: each invocation makes one RemoveLabel attempt and no Merge
\* call, and yields Success when its RemoveLabel call succeeds and the
\* label-removal Error when it fails.
C8_TwiceOnMergedRemovesLabelOnly ==
    TwiceOnMerged =>
        /\ OneRemovalNoMerge(prev.calls, prev.issue)
        /\ OneRemovalNoMerge(cc, prev.issue)
        /\ prev.calls[Len(prev.calls)].op = "RemoveLabel"
        /\ cc[Len(cc)].op = "RemoveLabel"
        /\ prev.resp = MergedRunResponse(prev.calls, prev.issue)
        /\ resp["comment"] = MergedRunResponse(cc, prev.issue)

\* Two invocations in succession on a merged PR, both answered with Success.
C8_Witness ==
    /\ TwiceOnMerged
    /\ prev.resp.kind = "Success"
    /\ resp["comment"].kind = "Success"

\* The comment handling found a precondition not met on an unmerged PR:
\* Mergeable=false, or a combined state other than "success" without the
\* pending-squash exception.
PreconditionNotMet ==
    /\ \E g \in 1..Len(cc) : cc[g].op = "GetPR" /\ cc[g].res = "ok" /\ ~cc[g].merged
    /\ \/ \E g \in 1..Len(cc) : cc[g].op = "GetPR" /\ cc[g].mergeable = "false"
       \/ \E t \in 1..Len(cc) :
              /\ cc[t].op = "CombinedStatus" /\ cc[t].res = "ok"
              /\ cc[t].state # "success"
              /\ ~(cc[t].state = "pending" /\ containsPendingSquashStatus(cc[t].statuses))

\* C9: on a precondition not met handleMergeCommand returns Success and does
\* nothing beyond the initial AddLabel: no Merge, RemoveLabel, Comment or
\* Squash call, and the 'merging' label stays on the PR.
C9_PreconditionNotMetNoAction ==
    PreconditionNotMet =>
        /\ CommentDone
        /\ resp["comment"] = SuccessResponse("", 0, 0)
        /\ NoCall(cc, {"Merge", "RemoveLabel", "Comment", "Squash"})
        /\ cur["comment"].Number \in label

\* A handling that waits on a pending combined status whose squash context is
\* not pending.
C9_Witness ==
    /\ CommentDone
    /\ \E t \in 1..Len(cc) :
           /\ cc[t].op = "CombinedStatus" /\ cc[t].state = "pending"
           /\ cc[t].statuses = <<RepoStatus(SquashContext, "success")>>

\* C10: AddLabel is the first remote call of every handling of a merge
\* command, and when it fails the response is an Error and no other remote
\* call is issued.
C10_AddLabelFirstAndFailureAborts ==
    /\ Len(cc) >= 1 =>
           /\ cc[1].op = "AddLabel" /\ cc[1].label = "merging"
           /\ cc[1].pr = cur["comment"].Number
    /\ (Len(cc) >= 1 /\ cc[1].res = "err") =>
           /\ Len(cc) = 1
           /\ CommentDone
           /\ resp["comment"] = AddLabelError(cur["comment"].Number)

C10_Witness == CommentDone /\ Len(cc) = 1 /\ cc[1].op = "AddLabel" /\ cc[1].res = "err"

\* The comment handling has stopped: it returned a response, or it crashed.
CommentStopped == pc["comment"] \in {"done", "panic"}

\* C11: every handling of a merge command ends by returning a Response
\* (Success or Error), whatever PullRequest value GetPR returns (Mergeable
\* unknown included) and however the remote calls turn out; it never crashes.
C11_AlwaysReturnsResponse ==
    CommentStopped =>
        /\ pc["comment"] = "done"
        /\ resp["comment"].kind \in {"Success", "Error"}

\* The PRs of the Merge calls in log, in call order.
IsMerge(c) == c.op = "Merge"
MergeCalls(log) ==
    LET m == SelectSeq(log, IsMerge) IN [i \in 1..Len(m) |-> m[i].pr]
\* The PRs of the search result, in result-list order.
Candidates == [i \in 1..Len(issuesToMerge) |-> issuesToMerge[i].Number]
\* A call of the status handling for a candidate has failed.
SomeCandidateFailed == \E i \in 2..Len(sc) : sc[i].res # "ok"

\* C12: after a successful search the Merge calls of the status handling are
\* one per candidate in result-list order (a prefix of it while the loop is
\* running, the whole list once it has ended), whatever failed on earlier
\* candidates; when the search fails the response is an Error and no Merge,
\* RemoveLabel or Comment call is made.
C12_EveryCandidateMergedInOrder ==
    /\ (Len(sc) >= 1 /\ sc[1].res = "ok") =>
           /\ Len(MergeCalls(sc)) <= Len(Candidates)
           /\ MergeCalls(sc) = SubSeq(Candidates, 1, Len(MergeCalls(sc)))
           /\ StatusDone => MergeCalls(sc) = Candidates
    /\ (Len(sc) >= 1 /\ sc[1].res = "err") =>
           /\ StatusDone
           /\ resp["status"] = SearchError
           /\ Len(sc) = 1

\* A batch of four whose first three candidates failed in the three ways (a
\* merge error, a conflict, a label removal) and whose fourth got its Merge
\* call all the same.
C12_Witness ==
    /\ StatusDone
    /\ Len(Candidates) = 4
    /\ MergeCalls(sc) = Candidates
    /\ \E i, j, k \in 2..Len(sc) :
           /\ i < j /\ j < k
           /\ sc[i].op = "Merge" /\ sc[i].res = "err" /\ sc[i].pr = 1
           /\ sc[j].op = "Merge" /\ sc[j].res = "conflict" /\ sc[j].pr = 2
           /\ sc[k].op = "RemoveLabel" /\ sc[k].res = "err" /\ sc[k].pr = 3

\* Handler h has a remote call in flight: a handling is between two of its
\* steps only while it waits for the answer to the call its next step takes.
InFlight(h) == ~AtRest(h)
\* The handlers have calls in flight for one and the same issue.
SameIssue(h, k) ==
    /\ h # k /\ InFlight(h) /\ InFlight(k)
    /\ pc[h] # "search" /\ pc[k] # "search"
    /\ cur[h].Number = cur[k].Number
\* The steps whose call changes the 'merging' label.
LabelSteps == {"addLabel", "removeMergedLabel", "removeLabel", "conflictRemoveLabel"}
OverlappingMerges == \E h, k \in Handlers : SameIssue(h, k) /\ pc[h] = "merge" /\ pc[k] = "merge"
OverlappingLabelCalls ==
    \E h, k \in Handlers : SameIssue(h, k) /\ pc[h] \in LabelSteps /\ pc[k] \in LabelSteps

\* C13: with a comment event and a status event in flight together, no two
\* remote calls for the same issue are in flight at once; in particular a PR
\* never has two overlapping Merge attempts or two overlapping calls that
\* change its 'merging' label.
C13_NoConcurrentCallsOnOneIssue ==
    /\ \A h, k \in Handlers : ~SameIssue(h, k)
    /\ ~OverlappingMerges
    /\ ~OverlappingLabelCalls

\* The SHA of the event is the SHA of at least one entry of its Branches.
OnBranchHead(ev) == ev.SHA \in {ev.Branches[i].SHA : i \in DOMAIN ev.Branches}

\* C14: newPullRequestsPossiblyReadyForMerging is true iff the event's State
\* is "success" and isStatusForBranchHead holds; isStatusForBranchHead is true
\* iff the event SHA is the SHA of at least one entry of the Branches list,
\* and false for an empty list.
C14_GateIffSuccessOnBranchHead ==
    /\ ret.fn = "isStatusForBranchHead" =>
           /\ ret.value <=> OnBranchHead(arg)
           /\ arg.Branches = <<>> => ~ret.value
    /\ ret.fn = "newPullRequestsPossiblyReadyForMerging" =>
           /\ ret.value <=> (arg.State = "success" /\ OnBranchHead(arg))
           /\ ret.value <=> (arg.State = "success" /\ isStatusForBranchHead(arg))

\* The gate has opened for a success event whose SHA heads its second branch
\* and not its first.
C14_Witness ==
    /\ ret = Returned("newPullRequestsPossiblyReadyForMerging", TRUE)
    /\ Len(arg.Branches) = 2
    /\ arg.Branches[1].SHA # arg.SHA

\* The body is the text "!merge" with nothing but white space before it and
\* after it.
IsPaddedCommand(body) ==
    \E i \in 1..(Len(body) + 1) :
        /\ \A k \in 1..(i - 1) : body[k] \in Space
        /\ i + 5 <= Len(body)
        /\ [k \in 1..6 |-> body[i + k - 1]] = <<"!", "m", "e", "r", "g", "e">>
        /\ \A k \in (i + 6)..Len(body) : body[k] \in Space

\* C15: isMergeCommand returns true iff the body with its leading and
\* trailing white space trimmed is exactly "!merge" (case-sensitive); white
\* space inside it or any other text gives false.
C15_MergeCommandIffTrimmedExact ==
    ret.fn = "isMergeCommand" => (ret.value <=> IsPaddedCommand(arg))

\* The command with white space before and after has been recognised.
C15_Witness ==
    /\ ret = Returned("isMergeCommand", TRUE)
    /\ Len(arg) = 8
    /\ arg[1] \in Space /\ arg[8] \in Space

\* The merge command for PR p has been accepted (AddLabel succeeded) on the
\* unmerged PR while its combined status is not yet "success".
AcceptedBeforeSuccess(p) == p \in label /\ p \notin green /\ p \notin merged
\* The success event for the head of PR p has reached the status handler.
EventDelivered(p) == pc["status"] = "search" /\ query = HeadSHA(p)
MergedAndUnlabelled(p) == p \in merged /\ p \notin label

\* C16: once a merge command has been accepted for an unmerged PR whose
\* combined status is not yet "success", a later success event for the PR's
\* head is followed, in every interleaving of the two handlings, by the PR
\* being merged and its 'merging' label removed, every remote call succeeding
\* and the search answering from the remote state.
C16_NoLostWakeUp ==
    \A p \in PRs :
        [](AcceptedBeforeSuccess(p) => [](EventDelivered(p) => <>MergedAndUnlabelled(p)))

\* The comment handling read a pending status and was still at its squash
\* step when the success event arrived; the status handling merged the PR.
C16_Witness ==
    /\ CommentDone /\ StatusDone
    /\ \E i \in 1..Len(cc) : cc[i].op = "Squash"
    /\ \E i \in 1..Len(sc) :
           /\ sc[i].op = "Merge" /\ sc[i].res = "ok"
           /\ sc[i].pr = cur["comment"].Number
    /\ MergedAndUnlabelled(cur["comment"].Number)

\* At least one status of the list has the squash context and is pending.
HasPendingSquash(statuses) ==
    \E i \in DOMAIN statuses : statuses[i] = RepoStatus("review/squash", "pending")
\* The comment handling has gone to its squash step.
SquashInvoked == pc["comment"] = "squash" \/ ~NoCall(cc, {"Squash"})
\* GetPR reported the PR unmerged and mergeable.
UnmergedMergeable ==
    \E g \in 1..Len(cc) :
        cc[g].op = "GetPR" /\ cc[g].res = "ok" /\ ~cc[g].merged /\ cc[g].mergeable = "true"

\* C17: on an unmerged PR with Mergeable=true, once the combined status has
\* been read, the squash step is invoked iff the combined state is "pending"
\* and at least one status has the squash context and state "pending", which
\* is what containsPendingSquashStatus returns; when the squash step is
\* invoked no Merge call is made in that handling.
C17_SquashIffPendingSquashStatus ==
    \A t \in 1..Len(cc) :
        (UnmergedMergeable /\ cc[t].op = "CombinedStatus" /\ cc[t].res = "ok") =>
            /\ containsPendingSquashStatus(cc[t].statuses) <=> HasPendingSquash(cc[t].statuses)
            /\ SquashInvoked <=>
                   (cc[t].state = "pending" /\ HasPendingSquash(cc[t].statuses))
            /\ SquashInvoked => (NoCall(cc, {"Merge"}) /\ pc["comment"] # "merge")

\* The squash step has run on a list whose second status is the pending
\* squash status, and the handling has ended.
C17_Witness ==
    /\ CommentDone
    /\ ~NoCall(cc, {"Squash"})
    /\ \E t \in 1..Len(cc) :
           /\ cc[t].op = "CombinedStatus" /\ Len(cc[t].statuses) = 2
           /\ cc[t].statuses[1].Context # "review/squash"
           /\ cc[t].statuses[2] = RepoStatus("review/squash", "pending")

\* Call i of log is a Merge call that failed with an error other than the
\* conflict error.
MergeFailed(log, i) == log[i].op = "Merge" /\ log[i].res = "err"
\* Handler h takes the step in which its Merge call fails with such an error.
MergeFailsStep(h) ==
    /\ Len(calls'[h]) = Len(calls[h]) + 1
    /\ MergeFailed(calls'[h], Len(calls'[h]))

\* C18: when the Merge call fails with an error other than the conflict
\* error, mergeReadyPR returns the Error "Failed to merge PR" with status code
\* 502, and nothing else changes: the step leaves the label and the merged
\* state of every PR as they are, and no RemoveLabel and no Comment call is
\* made for the PR in that handling, so that the label stays on it.
C18_MergeErrorLeavesLabel ==
    /\ [](\A h \in Handlers : \A i \in 1..Len(calls[h]) :
              MergeFailed(calls[h], i) =>
                  /\ CallsOf(calls[h], "RemoveLabel", calls[h][i].pr) = {}
                  /\ CallsOf(calls[h], "Comment", calls[h][i].pr) = {}
                  /\ (h = "comment") =>
                         /\ CommentDone
                         /\ resp[h] = MergeError(calls[h][i].pr)
                         /\ resp[h].code = 502
                         /\ calls[h][i].pr \in label)
    /\ [][\A h \in Handlers :
              MergeFailsStep(h) =>
                  /\ label' = label /\ merged' = merged
                  /\ (h = "status") =>
                         /\ finalErrResp' = MergeError(cur[h].Number)
                         /\ finalErrResp'.code = 502]_vars

\* A status handling whose candidate's Merge call failed with another error
\* than a conflict has ended, the candidate still carrying its label.
C18_Witness ==
    /\ StatusDone
    /\ \E i \in 1..Len(sc) : MergeFailed(sc, i) /\ sc[i].pr \in label
    /\ resp["status"].kind = "Error"

\* The remote calls whose failure the handlers surface as an Error.
SurfacedOps ==
    {"AddLabel", "GetPR", "CombinedStatus", "SearchIssues", "Merge", "RemoveLabel", "Comment"}
\* A call of log has failed (a merge conflict is not a failure).
SomeCallFailed(log) == \E i \in 1..Len(log) : log[i].op \in SurfacedOps /\ log[i].res = "err"
\* No call is issued twice for one PR in log.
IssuedOncePerPR(log) ==
    \A i, j \in 1..Len(log) :
        (log[i].op = log[j].op /\ log[i].pr = log[j].pr) => i = j

\* C19: a handling in which an AddLabel, GetPR, CombinedStatus, Search,
\* non-conflict Merge, RemoveLabel or Comment call has failed ends with an
\* Error response, never with a Success; and no call is issued twice for one
\* PR within one handling, so that a failed call is never issued again.
C19_FailureSurfacesNoRetry ==
    \A h \in Handlers :
        /\ (pc[h] = "done" /\ SomeCallFailed(calls[h])) =>
               /\ resp[h].kind = "Error"
               /\ resp[h].code = 502
        /\ IssuedOncePerPR(calls[h])

\* A conflict handling whose RemoveLabel call failed and whose Comment call
\* succeeded has ended with an Error.
C19_Witness ==
    /\ CommentDone /\ Len(cc) >= 2
    /\ cc[Len(cc)].op = "Comment" /\ cc[Len(cc)].res = "ok"
    /\ cc[Len(cc) - 1].op = "RemoveLabel" /\ cc[Len(cc) - 1].res = "err"
    /\ resp["comment"].kind = "Error"

\* Error e is in a line the status handling has logged.
ErrLogged(e) == \E i \in 1..Len(logs["status"]) : logs["status"][i].err = e
\* The conflict handling of candidate q logged its own label-removal error
\* and returned it: the Merge call hit a conflict, RemoveLabel failed and
\* Comment succeeded.
ReturnedAfterLogging(q) ==
    \E m \in 1..Len(sc) :
        /\ sc[m].op = "Merge" /\ sc[m].pr = q /\ sc[m].res = "conflict"
        /\ sc[m + 1].res = "err" /\ sc[m + 2].res = "ok"

\* C20 as stated: every failure of a batch is written to the log by the
\* status handling, the last one as well as those it superseded.
C20_EveryFailureLogged ==
    BatchDone => \A i \in 1..Len(Failing) : ErrLogged(FailingErrs[i])

\* C20 as amended: every failure superseded by a later one is logged when it
\* is replaced; the last failure is the response, and is in the log only when
\* it is the label-removal error that conflict handling logs itself.
C20_SupersededLoggedLastReturned ==
    (BatchDone /\ Len(Failing) >= 1) =>
        LET last == Failing[Len(Failing)].Number IN
        /\ \A i \in 1..(Len(Failing) - 1) : ErrLogged(FailingErrs[i])
        /\ resp["status"] = CandidateErr(last)
        /\ ErrLogged(CandidateErr(last)) <=> ReturnedAfterLogging(last)

\* A batch of four in which exactly candidates 2 and 4 failed, the fourth on
\* a merge error: the error of candidate 2 is logged, that of candidate 4 is
\* returned and not logged.
C20_Witness ==
    /\ BatchDone
    /\ Len(issuesToMerge) = 4
    /\ Failing = <<IssueOf(2), IssueOf(4)>>
    /\ CandidateErr(4) = MergeError(4)
    /\ ErrLogged(CandidateErr(2))
    /\ ~ErrLogged(CandidateErr(4))
    /\ resp["status"] = MergeError(4)

====
